---- MODULE Spec2Model ----
(***************************************************************************)
(* Model of the kin voice-agent backend: the /api/chat request handler     *)
(* (backend/main.py), the streaming segment buffer inside its audio        *)
(* generator, the ElevenLabs WebSocket synthesis session                   *)
(* (backend/tts_service.py), and the line parser of the completion stream  *)
(* (backend/llm_service.py).                                               *)
(*                                                                         *)
(* A text is a sequence of characters; a character is a one-element        *)
(* string token ("a", ",", " ", or "U+1F600" for an emoji code point).      *)
(***************************************************************************)
EXTENDS Integers, Sequences, FiniteSets, TLC

\* ------------------------------------------------------------------ bounds
MaxDeltas == 3      \* deltas yielded by one completion stream
MaxFrames == 2      \* frames the provider sends in one synthesis session
MaxLines == 2       \* lines of a completion stream body
MaxBlocks == 5      \* blocks a sample response text is built from
MaxOwnDeltas == 3   \* deltas of each of two concurrent requests

\* --------------------------------------------------------------- constants
LenThreshold == 40      \* main.py:193
PunctThreshold == 30    \* main.py:194-197
SpaceThreshold == 40    \* main.py:198

\* ------------------------------------------------------------ text helpers
Rep(c, n) == [i \in 1..n |-> c]

Whitespace == {" "}
EmojiChars == {"U+1F600"}
AllowedChars == {"a", "b", "c", ",", ".", "!", "?", " "}
Punctuation == {".", ",", "!", "?"}

RECURSIVE lstrip(_)
lstrip(s) ==
    IF s = <<>> THEN s
    ELSE IF Head(s) \in Whitespace THEN lstrip(Tail(s)) ELSE s

RECURSIVE rstrip(_)
rstrip(s) ==
    IF s = <<>> THEN s
    ELSE IF s[Len(s)] \in Whitespace THEN rstrip(SubSeq(s, 1, Len(s) - 1)) ELSE s

\* str.strip()
strip(s) == rstrip(lstrip(s))

endswith(s, c) == Len(s) > 0 /\ s[Len(s)] = c

RECURSIVE Concat(_)
Concat(ss) == IF ss = <<>> THEN <<>> ELSE Head(ss) \o Concat(Tail(ss))

RECURSIVE FilterSeq(_, _)
FilterSeq(s, keep) ==
    IF s = <<>> THEN <<>>
    ELSE IF Head(s) \in keep THEN <<Head(s)>> \o FilterSeq(Tail(s), keep)
         ELSE FilterSeq(Tail(s), keep)

RECURSIVE RemoveChars(_, _)
RemoveChars(s, drop) ==
    IF s = <<>> THEN <<>>
    ELSE IF Head(s) \in drop THEN RemoveChars(Tail(s), drop)
         ELSE <<Head(s)>> \o RemoveChars(Tail(s), drop)

\* re.sub(r'\s+', ' ', text)
RECURSIVE CollapseSpaces(_)
CollapseSpaces(s) ==
    IF Len(s) < 2 THEN s
    ELSE IF s[1] \in Whitespace /\ s[2] \in Whitespace
         THEN CollapseSpaces(Tail(s))
         ELSE <<Head(s)>> \o CollapseSpaces(Tail(s))

\* re.sub(r'([\.\,\!\?])\1+', r'\1', text)
RECURSIVE CollapsePunct(_)
CollapsePunct(s) ==
    IF Len(s) < 2 THEN s
    ELSE IF s[1] \in Punctuation /\ s[2] = s[1]
         THEN CollapsePunct(Tail(s))
         ELSE <<Head(s)>> \o CollapsePunct(Tail(s))

\* tts_service.strip_emojis
strip_emojis(text) == RemoveChars(text, EmojiChars)

\* tts_service.strip_markdown, on texts over AllowedChars \cup EmojiChars:
\* none of the markdown/HTML substitutions can match such a text, so what
\* remains is the allow-list filter, the two clean-ups and the final strip.
strip_markdown(text) ==
    IF text = <<>> THEN text
    ELSE strip(CollapsePunct(CollapseSpaces(FilterSeq(text, AllowedChars))))

\* ---------------------------------------------------------- segment buffer
\* variant: a buffer ending in punctuation is flushed whatever its length
should_generate_audio_AnyPunct(text_buf) ==
    \/ Len(text_buf) >= LenThreshold
    \/ (Len(text_buf) > 0 /\ text_buf[Len(text_buf)] \in Punctuation)

\* variant: no flush at the length threshold
should_generate_audio_NoLengthRule(text_buf) ==
    \/ (Len(text_buf) > 0 /\ text_buf[Len(text_buf)] \in Punctuation
          /\ Len(text_buf) >= PunctThreshold)
    \/ (endswith(text_buf, " ") /\ Len(text_buf) >= SpaceThreshold)

\* main.py:192-199
should_generate_audio(text_buf) ==
    \/ Len(text_buf) >= LenThreshold
    \/ (endswith(text_buf, ".") /\ Len(text_buf) >= PunctThreshold)
    \/ (endswith(text_buf, "!") /\ Len(text_buf) >= PunctThreshold)
    \/ (endswith(text_buf, "?") /\ Len(text_buf) >= PunctThreshold)
    \/ (endswith(text_buf, ",") /\ Len(text_buf) >= PunctThreshold)
    \/ (endswith(text_buf, " ") /\ Len(text_buf) >= SpaceThreshold)

\* variant: only the length rule flushes
ShouldEmit_AtLength(text_buf) ==
    Len(text_buf) >= LenThreshold /\ Len(strip(text_buf)) > 0

\* variant: the trimmed buffer is not tested
ShouldEmit_NoBlankCheck(text_buf) == should_generate_audio(text_buf)

\* main.py:201
ShouldEmit(text_buf) ==
    should_generate_audio(text_buf) /\ Len(strip(text_buf)) > 0

\* variant: the delta is put in front of the buffer
AppendDelta_InFront(text_buf, text_chunk) == text_chunk \o text_buf

\* variant: the delta replaces the buffer
AppendDelta_Overwrite(text_buf, text_chunk) == text_chunk

\* main.py:187
AppendDelta(text_buf, text_chunk) == text_buf \o text_chunk

\* variant: the remainder is never flushed
HasRemaining_Never(text_buf) == FALSE

\* variant: the remainder is tested untrimmed
HasRemaining_Untrimmed(text_buf) == text_buf # <<>>

\* main.py:211
HasRemaining(text_buf) == strip(text_buf) # <<>>

\* variant: the chunk overtakes what was written before
RelayChunk_Prepend(out, audio_chunk) == <<audio_chunk>> \o out

\* main.py:208 / 213: the chunk is yielded to the response body
RelayChunk(out, audio_chunk) == Append(out, audio_chunk)

\* variant: the text is tested before it is cleaned only
TextAccepted_Unsanitized(text) == text # <<>> /\ strip(text) # <<>>

\* tts_service.py:168-176: TRUE when the text is accepted for synthesis
TextAccepted(text) ==
    /\ text # <<>>
    /\ strip(text) # <<>>
    /\ strip(strip_markdown(strip_emojis(text))) # <<>>

\* ------------------------------------------------------------ input domains
\* deltas the completion stream may yield (all non-empty, llm_service.py:111)
Deltas == { Rep("a", 20),
            Rep("b", 9) \o <<",">>,
            <<"c">>,
            <<" ">>,
            Rep(" ", 20),
            <<"U+1F600">> }

Transcripts == { <<>>, <<" ">>, <<"a", "b">> }

Services == {"stt", "llm", "tts"}

\* frames a synthesis provider may send on the socket
JsonFrames == [kind : {"json"}, audio : {"none", "ok", "bad"},
               is_final : BOOLEAN, error : BOOLEAN]
OtherFrames == { [kind |-> k, audio |-> "none", is_final |-> FALSE, error |-> FALSE]
                 : k \in {"text", "binary", "scalar"} }
Frames == JsonFrames \cup OtherFrames
NoFrame == [kind |-> "none", audio |-> "none", is_final |-> FALSE, error |-> FALSE]

\* sent: messages sent on the socket; nread: frames received; nyield: chunks
\* yielded; frame: the frame being processed while suspended at a yield;
\* exit: how the receive loop was left; close_calls: sends of close_context;
\* got_error, got_final: an event with an error field, with a true is_final,
\* has been received
NoSession == [state |-> "none", sent |-> <<>>, nread |-> 0, nyield |-> 0,
              frame |-> NoFrame, exit |-> "none", close_calls |-> 0,
              got_error |-> FALSE, got_final |-> FALSE]

\* texts a client may post to the synthesis endpoints
TTSTexts == { <<>>, <<" ">>, <<"U+1F600">>, <<"a", "b">> }

Endpoints == {"chat", "tts", "tts_stream"}

\* what is known of the request: the endpoint called, the text posted to a
\* synthesis endpoint, whether the upload was read and what it held, the
\* calls made to the transcription provider, the text it returned, and the
\* detail of the error response, if any
NewRequest(e, t) ==
    [endpoint |-> e, text |-> t, audio_data |-> "unread", stt_calls |-> 0,
     stt_returned |-> FALSE, transcribed_text |-> <<>>, detail |-> "none"]

\* ------------------------------------------------- completion stream body
\* A body is a sequence of tokens: a character, or a run of characters that
\* no chunk boundary of the model cuts ("data:", the two halves of a JSON
\* text around the content string, a whole short JSON text).
NL == "\n"
DataPrefix == "data:"
ContentOpen == "{\"choices\":[{\"delta\":{\"content\":\""
ContentClose == "\"}}]}"
\* a character outside ASCII and the two bytes of its UTF-8 encoding
EAcute == "U+00E9"
Utf8Lead == "0xC3"
Utf8Cont == "0xA9"
ContentChars == {"a", EAcute}

\* the bytes the provider sends for a text: UTF-8, every other token of the
\* model being ASCII
RECURSIVE encode(_)
encode(text) ==
    IF text = <<>> THEN <<>>
    ELSE (IF Head(text) = EAcute THEN <<Utf8Lead, Utf8Cont>> ELSE <<Head(text)>>)
         \o encode(Tail(text))

\* llm_service.py:97: chunk.decode('utf-8'), which raises on a chunk that
\* starts or ends inside the bytes of a character
UnicodeDecodeError == [ok |-> FALSE, text |-> <<>>]
RECURSIVE decode(_)
decode(chunk) ==
    IF chunk = <<>> THEN [ok |-> TRUE, text |-> <<>>]
    ELSE IF Head(chunk) = Utf8Cont THEN UnicodeDecodeError
    ELSE IF Head(chunk) = Utf8Lead
    THEN IF Len(chunk) >= 2 /\ chunk[2] = Utf8Cont
         THEN LET r == decode(SubSeq(chunk, 3, Len(chunk)))
              IN  IF r.ok THEN [ok |-> TRUE, text |-> <<EAcute>> \o r.text] ELSE r
         ELSE UnicodeDecodeError
    ELSE LET r == decode(Tail(chunk))
         IN  IF r.ok THEN [ok |-> TRUE, text |-> <<Head(chunk)>> \o r.text] ELSE r

\* a JSON object as far as llm_service.py:109 looks into it
JsonObject(choices, delta, content, text) ==
    [ok |-> TRUE, choices |-> choices, delta |-> delta, content |-> content,
     text |-> text]
JSONDecodeError ==
    [ok |-> FALSE, choices |-> "absent", delta |-> "absent", content |-> "absent",
     text |-> <<>>]

\* llm_service.py:108: json.loads of the text after "data:"
json_loads(json_str) ==
    IF /\ Len(json_str) >= 2
       /\ json_str[1] = ContentOpen
       /\ json_str[Len(json_str)] = ContentClose
       /\ \A i \in 2..(Len(json_str) - 1) : json_str[i] \in ContentChars
    THEN JsonObject("list", "object", "string", SubSeq(json_str, 2, Len(json_str) - 1))
    ELSE IF json_str = <<"{}">>
    THEN JsonObject("absent", "absent", "absent", <<>>)
    ELSE IF json_str = <<"{\"choices\":[]}">>
    THEN JsonObject("empty", "absent", "absent", <<>>)
    ELSE IF json_str = <<"{\"choices\":[{}]}">>
    THEN JsonObject("list", "absent", "absent", <<>>)
    ELSE IF json_str = <<"{\"choices\":[{\"delta\":{\"role\":\"assistant\"}}]}">>
    THEN JsonObject("list", "object", "absent", <<>>)
    ELSE JSONDecodeError

\* llm_service.py:109:
\*   json_data.get("choices", [{}])[0].get("delta", {}).get("content")
\* raised: the exception the expression raises, or "none"; value: the
\* content string, <<>> for None and for the empty string
delta_content(json_data) ==
    IF json_data.choices = "empty"
    THEN [raised |-> "IndexError", value |-> <<>>]
    ELSE IF json_data.choices = "absent" \/ json_data.delta = "absent"
            \/ json_data.content = "absent"
    THEN [raised |-> "none", value |-> <<>>]
    ELSE [raised |-> "none", value |-> json_data.text]

\* llm_service.py:102-115: one line of the body; yield: the deltas it makes
\* the generator yield (none or one)
OnLine(line) ==
    IF ~(Len(line) >= 1 /\ line[1] = DataPrefix)
    THEN [raised |-> "none", yield |-> <<>>]
    ELSE LET json_str == strip(Tail(line))
         IN  IF json_str = <<>>
             THEN [raised |-> "none", yield |-> <<>>]
             ELSE LET json_data == json_loads(json_str)
                  IN  IF ~json_data.ok
                      THEN [raised |-> "none", yield |-> <<>>]
                      ELSE LET c == delta_content(json_data)
                           IN  IF c.raised # "none"
                               THEN [raised |-> c.raised, yield |-> <<>>]
                               ELSE IF c.value # <<>>
                               THEN [raised |-> "none", yield |-> <<c.value>>]
                               ELSE [raised |-> "none", yield |-> <<>>]

\* position of the first newline of a buffer that holds one
FirstNL(buffer) ==
    CHOOSE i \in 1..Len(buffer) :
        buffer[i] = NL /\ \A j \in 1..(i - 1) : buffer[j] # NL

\* llm_service.py:99-115: the complete lines of the buffer are taken off it
\* and processed one by one, until none is left or a line raises
RECURSIVE SplitLines(_)
SplitLines(p) ==
    IF p.status = "raised" \/ \A i \in 1..Len(p.buffer) : p.buffer[i] # NL
    THEN p
    ELSE LET i == FirstNL(p.buffer)
             line == SubSeq(p.buffer, 1, i - 1)
             rest == SubSeq(p.buffer, i + 1, Len(p.buffer))
             r == OnLine(line)
         IN  IF r.raised # "none"
             THEN [p EXCEPT !.buffer = rest, !.nlines = @ + 1,
                            !.status = "raised", !.raised = r.raised]
             ELSE SplitLines([p EXCEPT !.buffer = rest, !.nlines = @ + 1,
                                       !.yielded = @ \o r.yield])

\* lines a completion provider may send (without their newline)
ContentLine(x) == <<DataPrefix, " ", ContentOpen, x, ContentClose>>
BodyLines ==
    { ContentLine("a"), ContentLine(EAcute),
      <<>>,                                   \* blank line between events
      <<":", "k">>,                           \* comment (keep-alive)
      <<DataPrefix, " ">>,                    \* data line without payload
      <<DataPrefix, " ", "[DONE]">>,          \* end marker, not JSON
      <<DataPrefix, " ", ContentOpen, ContentClose>>,   \* empty content
      <<DataPrefix, " ", "{}">>,
      <<DataPrefix, " ", "{\"choices\":[{}]}">>,
      <<DataPrefix, " ", "{\"choices\":[{\"delta\":{\"role\":\"assistant\"}}]}">>,
      <<DataPrefix, " ", "{\"choices\":[]}">> }

Bodies == UNION { [1..n -> BodyLines] : n \in 0..MaxLines }

\* the bytes of a body: every line followed by its newline
RECURSIVE BytesOf(_)
BytesOf(lines) ==
    IF lines = <<>> THEN <<>>
    ELSE encode(Head(lines)) \o <<NL>> \o BytesOf(Tail(lines))

\* the bytes of a body whose last line may lack its newline
BodyBytes(lines, terminated) ==
    IF terminated THEN BytesOf(lines)
    ELSE SubSeq(BytesOf(lines), 1, Len(BytesOf(lines)) - 1)

\* llm_service.py:91: stream_response about to read the body `lines`;
\* stream: bytes not yet received, buffer: llm_service.py:91/97/100,
\* nlines: lines taken off the buffer so far, yielded: the deltas yielded
\* so far, raised: the exception that left the generator
NewParse(lines, terminated) ==
    [lines |-> lines, terminated |-> terminated,
     stream |-> BodyBytes(lines, terminated), buffer |-> <<>>, nlines |-> 0,
     yielded |-> <<>>, status |-> "reading", raised |-> "none"]
NoParse ==
    [lines |-> <<>>, terminated |-> TRUE, stream |-> <<>>, buffer |-> <<>>,
     nlines |-> 0, yielded |-> <<>>, status |-> "none", raised |-> "none"]

\* ------------------------------------------------ sample response texts
\* sizes of the deltas a sample text is cut into
ChunkSizes == {1, 5}

Blocks == { Rep("a", 15), <<",">>, <<" ">> }
SampleTexts ==
    { Concat(bs) : bs \in UNION { [1..n -> Blocks] : n \in 0..MaxBlocks } }

\* main.py:171-172 for one run of the segment buffer over a text; pos:
\* characters fed so far, done: the delta sequence has ended
NewRun == [pos |-> 0, text_buffer |-> <<>>, segments |-> <<>>, done |-> FALSE]
NewChunking(text) == [text |-> text, run |-> [n \in ChunkSizes |-> NewRun]]
NoChunking == NewChunking(<<>>)

\* ------------------------------------------------------ a sample dialogue
\* the deltas of the sample answer "Hello there, how are you today?"
SampleDeltas ==
    << <<"H", "e", "l", "l", "o">>,
       <<" ", "t", "h", "e", "r", "e">>,
       <<",", " ", "h", "o", "w">>,
       <<" ", "a", "r", "e">>,
       <<" ", "y", "o", "u">>,
       <<" ", "t", "o", "d", "a", "y", "?">> >>

\* the deltas of `ds` whose index is in `keep`, in order
RECURSIVE Pick(_, _, _)
Pick(ds, keep, i) ==
    IF i > Len(ds) THEN <<>>
    ELSE (IF i \in keep THEN <<ds[i]>> ELSE <<>>) \o Pick(ds, keep, i + 1)

\* delta sequences a completion may give: the sample answer with any of
\* its deltas missing
SampleRuns == { Pick(SampleDeltas, keep, 1) : keep \in SUBSET (1..Len(SampleDeltas)) }

\* main.py:171-172 before the first delta of `ds`; fed: deltas consumed,
\* emitted_at: for every segment, the number of deltas consumed when it
\* was emitted; done: the delta sequence has ended
NewDialogue(ds) ==
    [deltas |-> ds, fed |-> 0, text_buffer |-> <<>>, segments |-> <<>>,
     emitted_at |-> <<>>, final_flush |-> FALSE, done |-> FALSE]
NoDialogue == NewDialogue(<<>>)

\* ------------------------------------------------ two concurrent requests
Requests == {1, 2}

\* where things live: a cell per call of the handler, and cell 0 for what
\* would be kept at module level
Cells == {0} \cup Requests

\* variant: the text buffer is kept at module level
BufferOf_Module(r) == 0

\* main.py:170-176: full_text_response and text_buffer are locals of the
\* call of chat, bound by the nonlocal of its own generator
BufferOf(r) == r

\* variant: the service keeps one connection for all its calls
SocketOf_Service(r) == 0

\* tts_service.py:190-198: every call of generate_audio_stream opens its
\* own connection, under a context id of its own
SocketOf(r) == r

\* the character request r's completion is made of, and its deltas
OwnChar(r) == IF r = 1 THEN "a" ELSE "b"
OwnDeltas(r) == { Rep(OwnChar(r), 20), <<OwnChar(r), ",">> }

NewOwn == [pc |-> "llm_wait", deltas |-> <<>>, segments |-> <<>>,
           output |-> <<>>, ended |-> FALSE]

\* buf: the text buffers, by cell; sock: the text being synthesized on
\* each connection, by cell; r: what each request has consumed and produced
NewPair ==
    [buf |-> [c \in Cells |-> <<>>], sock |-> [c \in Cells |-> <<>>],
     r |-> [q \in Requests |-> NewOwn]]

VARIABLES
    svc,                 \* configured services (main.py:46-65)
    req,                 \* the request being served
    pc,                  \* where the request's coroutine is suspended
    response,            \* what the client has been sent
    llm,                 \* completion stream connection
    deltas,              \* deltas yielded so far by stream_response
    full_text_response,  \* main.py:171
    text_buffer,         \* main.py:172
    segments,            \* texts handed to tts_service.generate_audio_stream
    ws,                  \* the current (or last) synthesis session
    output,              \* audio chunks written to the response body
    lp,                  \* stream_response reading a body (llm_service.py:91-115)
    ck,                  \* the segment buffer fed one text in deltas of two sizes
    sc,                  \* the segment buffer fed a sample dialogue
    rq                   \* two chat requests streaming at the same time

vars == <<svc, req, pc, response, llm, deltas, full_text_response, text_buffer,
          segments, ws, output, lp, ck, sc, rq>>

\* what the steps of a request leave alone
aux == <<svc, lp, ck, sc, rq>>
env == <<aux, req>>

pipeVars == <<deltas, full_text_response, text_buffer, segments, ws, output>>

Init ==
    /\ svc \in SUBSET Services
    /\ req \in { NewRequest("chat", <<>>) }
              \cup { NewRequest(e, t) : e \in Endpoints \ {"chat"}, t \in TTSTexts }
    /\ pc = "idle"
    /\ response = "none"
    /\ llm = "none"
    /\ deltas = <<>>
    /\ full_text_response = <<>>
    /\ text_buffer = <<>>
    /\ segments = <<>>
    /\ ws = NoSession
    /\ output = <<>>
    /\ lp = NoParse
    /\ ck = NoChunking
    /\ sc = NoDialogue
    /\ rq = NewPair


\* ----------------------------------------------------------- chat handler
\* variant: only the transcription service is tested
ServicesConfigured_OnlySTT(s) == "stt" \in s

\* main.py:142-147
ServicesConfigured(s) == "stt" \in s /\ "llm" \in s /\ "tts" \in s

\* variant: an empty upload is passed on to the provider
AudioRejected_Never(audio_data) == FALSE

\* stt_service.py:62-63
AudioRejected(audio_data) == audio_data = "empty"

\* variant: no text is refused
NoSpeech_Never(transcribed_text) == FALSE

\* variant: only the empty text is refused
NoSpeech_EmptyOnly(transcribed_text) == transcribed_text = <<>>

\* main.py:161
NoSpeech(transcribed_text) ==
    transcribed_text = <<>> \/ strip(transcribed_text) = <<>>

\* stt_service.py:130-132: whatever the provider call raised is re-raised
\* as a ValueError
STTFailure == "ValueError"

\* main.py:243-247: the status of the HTTPException the handler raises
StatusFor(exc) == IF exc = "ValueError" THEN "http400" ELSE "http500"

\* main.py:142-158 and stt_service.py:62-99: the service checks, then the
\* upload is read and transcribe_audio is entered; it rejects an empty
\* upload before the provider call, else the provider is called and the
\* handler awaits the transcription.
ChatStart ==
    /\ pc = "idle"
    /\ req.endpoint = "chat"
    /\ IF ~ServicesConfigured(svc)
       THEN /\ pc' = "failed"
            /\ response' = "http500"
            /\ req' = [req EXCEPT !.detail = "not_configured"]
       ELSE \E audio_data \in {"empty", "bytes"} :
              IF AudioRejected(audio_data)
              THEN /\ pc' = "failed"
                   /\ response' = StatusFor("ValueError")
                   /\ req' = [req EXCEPT !.audio_data = audio_data,
                                         !.detail = "empty_audio"]
              ELSE /\ pc' = "transcribing"
                   /\ req' = [req EXCEPT !.audio_data = audio_data,
                                         !.stt_calls = @ + 1]
                   /\ UNCHANGED response
    /\ UNCHANGED <<aux, llm>>
    /\ UNCHANGED pipeVars

\* stt_service.py:99-132 and main.py:159-162, 228-247: the provider call
\* returns a text or raises; a blank text raises ValueError in the handler;
\* otherwise the handler returns the StreamingResponse.
STTReturn ==
    /\ pc = "transcribing"
    /\ \/ /\ pc' = "failed"
          /\ response' = StatusFor(STTFailure)
          /\ req' = [req EXCEPT !.detail = "stt_failed"]
       \/ \E transcribed_text \in Transcripts :
            IF NoSpeech(transcribed_text)
            THEN /\ pc' = "failed"
                 /\ response' = StatusFor("ValueError")
                 /\ req' = [req EXCEPT !.stt_returned = TRUE,
                                       !.transcribed_text = transcribed_text,
                                       !.detail = "no_speech"]
            ELSE /\ pc' = "responding"
                 /\ req' = [req EXCEPT !.stt_returned = TRUE,
                                       !.transcribed_text = transcribed_text]
                 /\ UNCHANGED response
    /\ UNCHANGED <<aux, llm>>
    /\ UNCHANGED pipeVars

\* main.py:331-349 and 406-425: a synthesis endpoint tests its service and
\* returns the StreamingResponse around its generator
TTSRequest ==
    /\ pc = "idle"
    /\ req.endpoint \in {"tts", "tts_stream"}
    /\ IF "tts" \notin svc
       THEN /\ pc' = "failed"
            /\ response' = "http500"
            /\ req' = [req EXCEPT !.detail = "not_configured"]
       ELSE /\ pc' = "responding"
            /\ UNCHANGED <<response, req>>
    /\ UNCHANGED <<aux, llm>>
    /\ UNCHANGED pipeVars

\* tts_service.py:168-191, entered by the first iteration of
\* generate_audio_stream(text): the session the call starts with
NewSession(text) ==
    IF TextAccepted(text)
    THEN [NoSession EXCEPT !.state = "connecting"]
    ELSE [NoSession EXCEPT !.state = "rejected"]

\* variant: the exception is swallowed and the loop goes on
OnGeneratorException_Swallowed == [pc |-> "llm_wait", response |-> "started"]

\* main.py:215-217: an exception leaves generate_audio_stream
OnGeneratorException == [pc |-> "failed", response |-> "aborted"]

\* main.py:228-241, 340-349, 418-425: the response is started (status
\* line and headers go out) and only then the body generator is iterated
\* for the first time. In chat it runs to the first await of
\* stream_response, the request to the provider; in a synthesis endpoint it
\* enters tts_service.generate_audio_stream with the posted text.
ResponseStart ==
    /\ pc = "responding"
    /\ IF req.endpoint = "chat"
       THEN /\ response' = "started"
            /\ llm' = "connecting"
            /\ pc' = "llm_connect"
            /\ UNCHANGED pipeVars
       ELSE /\ segments' = Append(segments, req.text)
            /\ ws' = NewSession(req.text)
            /\ IF TextAccepted(req.text)
               THEN pc' = "tts_connect" /\ response' = "started"
               ELSE /\ pc' = OnGeneratorException.pc
                    /\ response' = OnGeneratorException.response
            /\ UNCHANGED <<llm, deltas, full_text_response, text_buffer, output>>
    /\ UNCHANGED env

\* llm_service.py:92-94: the request is sent; raise_for_status
LLMConnect ==
    /\ pc = "llm_connect"
    /\ \/ llm' = "open" /\ pc' = "llm_wait" /\ UNCHANGED response
       \/ /\ llm' = "closed"
          /\ pc' = OnGeneratorException.pc
          /\ response' = OnGeneratorException.response
    /\ UNCHANGED env
    /\ UNCHANGED pipeVars

\* variant: the buffer keeps the emitted text (no reset of main.py:204)
LLMDelta_NoReset ==
    /\ pc = "llm_wait"
    /\ Len(deltas) < MaxDeltas
    /\ \E text_chunk \in Deltas :
         LET buf == AppendDelta(text_buffer, text_chunk)
             text_to_convert == strip(buf)
         IN  /\ deltas' = Append(deltas, text_chunk)
             /\ full_text_response' = full_text_response \o text_chunk
             /\ text_buffer' = buf
             /\ IF ShouldEmit(buf)
                THEN /\ segments' = Append(segments, text_to_convert)
                     /\ ws' = NewSession(text_to_convert)
                     /\ IF TextAccepted(text_to_convert)
                        THEN pc' = "tts_connect" /\ UNCHANGED response
                        ELSE /\ pc' = OnGeneratorException.pc
                             /\ response' = OnGeneratorException.response
                ELSE UNCHANGED <<segments, ws, pc, response>>
    /\ UNCHANGED <<env, llm, output>>

\* main.py:180-208: one delta arrives from stream_response
LLMDelta ==
    /\ pc = "llm_wait"
    /\ Len(deltas) < MaxDeltas
    /\ \E text_chunk \in Deltas :
         LET buf == AppendDelta(text_buffer, text_chunk)
             text_to_convert == strip(buf)
         IN  /\ deltas' = Append(deltas, text_chunk)
             /\ full_text_response' = full_text_response \o text_chunk
             /\ IF ShouldEmit(buf)
                THEN /\ text_buffer' = <<>>
                     /\ segments' = Append(segments, text_to_convert)
                     /\ ws' = NewSession(text_to_convert)
                     /\ IF TextAccepted(text_to_convert)
                        THEN pc' = "tts_connect" /\ UNCHANGED response
                        ELSE /\ pc' = OnGeneratorException.pc
                             /\ response' = OnGeneratorException.response
                ELSE /\ text_buffer' = buf
                     /\ UNCHANGED <<segments, ws, pc, response>>
    /\ UNCHANGED <<env, llm, output>>

\* main.py:210-213 after llm_service.py:96 ran out of bytes: the stream ends
LLMEnd ==
    /\ pc = "llm_wait"
    /\ llm' = "ended"
    /\ IF HasRemaining(text_buffer)
       THEN /\ segments' = Append(segments, strip(text_buffer))
            /\ ws' = NewSession(strip(text_buffer))
            /\ IF TextAccepted(strip(text_buffer))
               THEN pc' = "tts_connect" /\ UNCHANGED response
               ELSE /\ pc' = OnGeneratorException.pc
                    /\ response' = OnGeneratorException.response
       ELSE /\ pc' = "done"
            /\ response' = "complete"
            /\ UNCHANGED <<segments, ws>>
    /\ UNCHANGED <<env, deltas, full_text_response, text_buffer, output>>

\* llm_service.py:96-109: reading the body raises (transport error, or an
\* exception other than JSONDecodeError while a line is parsed)
LLMError ==
    /\ pc = "llm_wait"
    /\ llm' = "closed"
    /\ pc' = OnGeneratorException.pc
    /\ response' = OnGeneratorException.response
    /\ UNCHANGED env
    /\ UNCHANGED pipeVars


\* ------------------------------------------------------ synthesis session
\* variant: the connection is kept when the session returns
Released_KeptOpen(w) == [w EXCEPT !.frame = NoFrame]

\* tts_service.py:194-198: the `async with` block is left normally and the
\* connection is released
Released(w) == [w EXCEPT !.state = "released", !.frame = NoFrame]

\* tts_service.py:194-198, 264-266: an exception leaves the `async with`
\* block; the connection is released and the exception is re-raised
Raised(w) == [w EXCEPT !.state = "raised", !.frame = NoFrame]

\* tts_service.py:194-198: websockets.connect succeeds or raises
TTSConnect ==
    /\ pc = "tts_connect"
    /\ \/ /\ ws' = [ws EXCEPT !.state = "open"]
          /\ pc' = "tts_send_generate"
          /\ UNCHANGED response
       \/ /\ ws' = [ws EXCEPT !.state = "connect_failed"]
          /\ pc' = OnGeneratorException.pc
          /\ response' = OnGeneratorException.response
    /\ UNCHANGED <<env, llm, deltas, full_text_response, text_buffer, segments, output>>

\* tts_service.py:200-211: the initial message with the text goes out, or
\* send raises because the connection dropped
TTSSendGenerate ==
    /\ pc = "tts_send_generate"
    /\ \/ /\ ws' = [ws EXCEPT !.sent = Append(@, "generate")]
          /\ pc' = "tts_send_flush"
          /\ UNCHANGED response
       \/ /\ ws' = Raised(ws)
          /\ pc' = OnGeneratorException.pc
          /\ response' = OnGeneratorException.response
    /\ UNCHANGED <<env, llm, deltas, full_text_response, text_buffer, segments, output>>

\* variant: the flush message is not sent
TTSSendFlush_Skipped ==
    /\ pc = "tts_send_flush"
    /\ pc' = "tts_recv"
    /\ UNCHANGED <<env, llm, deltas, full_text_response, text_buffer, segments,
                   output, ws, response>>

\* tts_service.py:213-217
TTSSendFlush ==
    /\ pc = "tts_send_flush"
    /\ \/ /\ ws' = [ws EXCEPT !.sent = Append(@, "flush")]
          /\ pc' = "tts_recv"
          /\ UNCHANGED response
       \/ /\ ws' = Raised(ws)
          /\ pc' = OnGeneratorException.pc
          /\ response' = OnGeneratorException.response
    /\ UNCHANGED <<env, llm, deltas, full_text_response, text_buffer, segments, output>>

\* tts_service.py:235-244: what follows the audio part of a JSON frame
AfterAudio(w, f) ==
    IF f.is_final
    THEN [pc |-> "tts_send_close", ws |-> [w EXCEPT !.frame = NoFrame, !.exit = "final"]]
    ELSE IF f.error
    THEN [pc |-> "failed", ws |-> Raised([w EXCEPT !.exit = "error_event"])]
    ELSE [pc |-> "tts_recv", ws |-> [w EXCEPT !.frame = NoFrame]]

\* tts_service.py:221-256: one received frame is processed up to the next
\* suspension point (the yield of a chunk, or the wait for the next frame)
OnFrame(w, f) ==
    CASE f.kind = "text"   -> [pc |-> "tts_recv", ws |-> w]
      [] f.kind = "scalar" -> [pc |-> "failed", ws |-> Raised([w EXCEPT !.exit = "exception"])]
      [] f.kind = "binary" -> [pc |-> "tts_yield", ws |-> [w EXCEPT !.frame = f]]
      [] f.kind = "json"   ->
            IF f.audio = "ok" THEN [pc |-> "tts_yield", ws |-> [w EXCEPT !.frame = f]]
            ELSE IF f.audio = "bad" THEN [pc |-> "tts_recv", ws |-> w]
            ELSE AfterAudio(w, f)

\* tts_service.py:220: the next frame arrives, or the provider ends the
\* connection (a normal closure ends the iteration, any other raises)
TTSRecv ==
    /\ pc = "tts_recv"
    /\ \/ /\ ws.nread < MaxFrames
          /\ \E f \in Frames :
               LET w == [ws EXCEPT !.nread = @ + 1,
                                   !.got_error = @ \/ f.error,
                                   !.got_final = @ \/ f.is_final]
                   next == OnFrame(w, f)
               IN  /\ ws' = next.ws
                   /\ pc' = next.pc
                   /\ response' = IF next.pc = "failed"
                                  THEN OnGeneratorException.response
                                  ELSE response
       \/ /\ ws' = [ws EXCEPT !.state = "peer_closed", !.exit = "peer_closed"]
          /\ pc' = "tts_send_close"
          /\ UNCHANGED response
       \/ /\ ws' = Raised([ws EXCEPT !.exit = "conn_error"])
          /\ pc' = OnGeneratorException.pc
          /\ response' = OnGeneratorException.response
    /\ UNCHANGED <<env, llm, deltas, full_text_response, text_buffer, segments, output>>

\* tts_service.py:230 / 249 and main.py:208 / 213: the chunk is passed up
\* and written to the response body; the session then resumes after its yield
TTSYield ==
    /\ pc = "tts_yield"
    /\ LET audio_chunk == [seg |-> Len(segments), k |-> ws.nyield + 1]
           w == [ws EXCEPT !.nyield = @ + 1]
           next == IF ws.frame.kind = "binary"
                   THEN [pc |-> "tts_recv", ws |-> [w EXCEPT !.frame = NoFrame]]
                   ELSE AfterAudio(w, ws.frame)
       IN  /\ output' = RelayChunk(output, audio_chunk)
           /\ ws' = next.ws
           /\ pc' = next.pc
           /\ response' = IF next.pc = "failed"
                          THEN OnGeneratorException.response
                          ELSE response
    /\ UNCHANGED <<env, llm, deltas, full_text_response, text_buffer, segments>>

\* main.py:207-213: where the generator goes on once a session has returned
AfterSession ==
    IF req.endpoint # "chat" THEN "done"
    ELSE IF llm = "ended" THEN "done" ELSE "llm_wait"

\* tts_service.py:258-262: the close_context message, then the `async with`
\* block is left; send raises on a connection that is already closed
TTSSendClose ==
    /\ pc = "tts_send_close"
    /\ \/ /\ ws.state = "open"
          /\ ws' = Released([ws EXCEPT !.sent = Append(@, "close"),
                                       !.close_calls = @ + 1])
          /\ pc' = AfterSession
          /\ response' = IF AfterSession = "done" THEN "complete" ELSE response
       \/ /\ ws' = Raised([ws EXCEPT !.close_calls = @ + 1])
          /\ pc' = OnGeneratorException.pc
          /\ response' = OnGeneratorException.response
    /\ UNCHANGED <<env, llm, deltas, full_text_response, text_buffer, segments, output>>

\* ------------------------------------------------------ client disconnect
\* the body generator is awaiting inside stream_response (llm_service.py:92-96)
InCompletion == {"llm_connect", "llm_wait"}

\* the body generator is awaiting inside a synthesis session
\* (tts_service.py:194-262)
InSession == {"tts_connect", "tts_send_generate", "tts_send_flush", "tts_recv",
              "tts_send_close"}

\* variant: the cancellation leaves the session without releasing the connection
Cancelled_LeftOpen(w) == [w EXCEPT !.frame = NoFrame]

\* tts_service.py:194-198, 264-266: CancelledError leaves the `async with`
\* block (`except Exception` does not catch it) and the connection is released
Cancelled(w) == [w EXCEPT !.state = "cancelled", !.frame = NoFrame]

\* main.py:174-217 under the StreamingResponse of 228-241: the client goes
\* away while the body is streamed and the task that iterates the body is
\* cancelled. If it is awaiting inside the generators, CancelledError is
\* raised at that await and unwinds them (main.py:215 does not catch it);
\* if it is writing a chunk, the generators stay suspended at their yield.
\* The generator of stream_response, suspended at llm_service.py:112 while a
\* session runs, is never closed by the unwinding.
ClientDisconnect ==
    /\ response = "started"
    /\ pc \in InCompletion \cup InSession \cup {"tts_yield"}
    /\ pc' = "cancelled"
    /\ response' = "disconnected"
    /\ llm' = IF pc \in InCompletion THEN "cancelled" ELSE llm
    /\ ws' = IF pc \in InSession THEN Cancelled(ws) ELSE ws
    /\ UNCHANGED <<env, deltas, full_text_response, text_buffer, segments, output>>

\* tts_service.py:194-198, 229/249: the session generator was abandoned at
\* its yield; when it is collected the event loop closes it, GeneratorExit
\* is raised at the yield and leaves the `async with` block
FinalizeSession ==
    /\ pc = "cancelled"
    /\ ws.state = "open"
    /\ ws.frame # NoFrame
    /\ ws' = [ws EXCEPT !.state = "finalized", !.frame = NoFrame]
    /\ UNCHANGED <<env, pc, response, llm, deltas, full_text_response,
                   text_buffer, segments, output>>

\* llm_service.py:92-93, 112: the same for the generator of stream_response,
\* abandoned at its yield when the body generator was left by an exception
\* or by the cancellation
FinalizeStream ==
    /\ pc \in {"cancelled", "failed"}
    /\ llm = "open"
    /\ llm' = "finalized"
    /\ UNCHANGED <<env, pc, response, ws, deltas, full_text_response,
                   text_buffer, segments, output>>

Next ==
    \/ ChatStart
    \/ TTSRequest
    \/ STTReturn
    \/ ResponseStart
    \/ LLMConnect
    \/ LLMDelta
    \/ LLMEnd
    \/ LLMError
    \/ TTSConnect
    \/ TTSSendGenerate
    \/ TTSSendFlush
    \/ TTSRecv
    \/ TTSYield
    \/ TTSSendClose
    \/ ClientDisconnect
    \/ FinalizeSession
    \/ FinalizeStream

Spec == Init /\ [][Next]_vars

\* the event loop keeps running after the request: an abandoned generator
\* is eventually collected and closed
FairSpec == Spec /\ WF_vars(FinalizeSession) /\ WF_vars(FinalizeStream)

\* tts_service.py:220-244: the provider has delivered the final marker or an
\* error event of the current session and owes it no further event
SessionDelivered == ws.got_final \/ ws.got_error

\* the steps that are sure to come without the completion stream: those the
\* code takes by itself, the client accepting a chunk, and the synthesis
\* provider sending the next event or ending the connection as long as it
\* has delivered neither final marker nor error
PipelineStep ==
    \/ ChatStart
    \/ TTSRequest
    \/ STTReturn
    \/ ResponseStart
    \/ LLMConnect
    \/ TTSConnect
    \/ TTSSendGenerate
    \/ TTSSendFlush
    \/ (TTSRecv /\ ~SessionDelivered)
    \/ TTSYield
    \/ TTSSendClose

\* llm_service.py:96: the completion stream gives its next delta, ends or
\* fails, which is what LLMDelta, LLMEnd and LLMError change
CompletionEvent == pc = "llm_wait" /\ (deltas' # deltas \/ llm' # llm)

\* weak fairness of the completion events, which are enabled exactly while
\* the loop of main.py:180 waits for one
CompletionFair == <>[](pc = "llm_wait") => []<><<CompletionEvent>>_vars

LiveSpec == Spec /\ WF_vars(PipelineStep) /\ CompletionFair


\* ------------------------------------------- stream_response on its own
requestVars == <<svc, req, pc, response, llm, pipeVars>>

\* no request is being served
NoRequest ==
    /\ svc = Services
    /\ req = NewRequest("chat", <<>>)
    /\ pc = "idle"
    /\ response = "none"
    /\ llm = "none"
    /\ deltas = <<>>
    /\ full_text_response = <<>>
    /\ text_buffer = <<>>
    /\ segments = <<>>
    /\ ws = NoSession
    /\ output = <<>>

ParseInit ==
    /\ NoRequest
    /\ lp \in { NewParse(lines, TRUE) : lines \in Bodies }
              \cup { NewParse(lines, FALSE) : lines \in Bodies \ {<<>>} }
    /\ ck = NoChunking
    /\ sc = NoDialogue
    /\ rq = NewPair

\* llm_service.py:96-115: aiter_bytes delivers the next chunk, of any size;
\* it is appended to the buffer and the complete lines are processed
ReadChunk ==
    /\ lp.status = "reading"
    /\ \E n \in 1..Len(lp.stream) :
         LET chunk == decode(SubSeq(lp.stream, 1, n))
             rest == SubSeq(lp.stream, n + 1, Len(lp.stream))
         IN  lp' = IF chunk.ok
                   THEN SplitLines([lp EXCEPT !.stream = rest,
                                              !.buffer = @ \o chunk.text])
                   ELSE [lp EXCEPT !.stream = rest, !.status = "raised",
                                   !.raised = "UnicodeDecodeError"]
    /\ UNCHANGED <<requestVars, ck, sc, rq>>

\* variant: what is left in the buffer is parsed as a last line
ReadEnd_ParseRest ==
    /\ lp.status = "reading"
    /\ lp.stream = <<>>
    /\ lp' = LET p == SplitLines([lp EXCEPT !.buffer = @ \o <<NL>>])
             IN  IF p.status = "raised" THEN p ELSE [p EXCEPT !.status = "ended"]
    /\ UNCHANGED <<requestVars, ck, sc, rq>>

\* llm_service.py:96: the body is exhausted and the generator returns
ReadEnd ==
    /\ lp.status = "reading"
    /\ lp.stream = <<>>
    /\ lp' = [lp EXCEPT !.status = "ended"]
    /\ UNCHANGED <<requestVars, ck, sc, rq>>

ParseNext == ReadChunk \/ ReadEnd

ParseSpec == ParseInit /\ [][ParseNext]_vars

\* --------------------------------------------- segment buffer on its own
ChunkInit ==
    /\ NoRequest
    /\ lp = NoParse
    /\ ck \in { NewChunking(text) : text \in SampleTexts }
    /\ sc = NoDialogue
    /\ rq = NewPair

\* main.py:180-204: the next delta of n characters (the last may be shorter)
FeedDelta(n) ==
    LET r == ck.run[n]
        text_chunk == SubSeq(ck.text, r.pos + 1,
                             IF r.pos + n <= Len(ck.text) THEN r.pos + n
                                                          ELSE Len(ck.text))
        buf == AppendDelta(r.text_buffer, text_chunk)
    IN  /\ ~r.done
        /\ r.pos < Len(ck.text)
        /\ ck' = [ck EXCEPT !.run[n] =
                    IF ShouldEmit(buf)
                    THEN [r EXCEPT !.pos = @ + Len(text_chunk),
                                   !.text_buffer = <<>>,
                                   !.segments = Append(@, strip(buf))]
                    ELSE [r EXCEPT !.pos = @ + Len(text_chunk),
                                   !.text_buffer = buf]]
        /\ UNCHANGED <<requestVars, lp, sc, rq>>

\* main.py:210-213: the deltas are over and the remainder is flushed
EndOfDeltas(n) ==
    LET r == ck.run[n]
    IN  /\ ~r.done
        /\ r.pos = Len(ck.text)
        /\ ck' = [ck EXCEPT !.run[n] =
                    [r EXCEPT !.done = TRUE,
                              !.segments = IF HasRemaining(r.text_buffer)
                                           THEN Append(@, strip(r.text_buffer))
                                           ELSE @]]
        /\ UNCHANGED <<requestVars, lp, sc, rq>>

ChunkNext == \E n \in ChunkSizes : FeedDelta(n) \/ EndOfDeltas(n)

ChunkSpec == ChunkInit /\ [][ChunkNext]_vars

\* ------------------------------------- segment buffer on a sample dialogue
DialogueInit ==
    /\ NoRequest
    /\ lp = NoParse
    /\ ck = NoChunking
    /\ sc \in { NewDialogue(ds) : ds \in SampleRuns }
    /\ rq = NewPair

\* main.py:180-204: the next delta of the dialogue is consumed
NextDelta ==
    LET text_chunk == sc.deltas[sc.fed + 1]
        buf == AppendDelta(sc.text_buffer, text_chunk)
    IN  /\ ~sc.done
        /\ sc.fed < Len(sc.deltas)
        /\ sc' = IF ShouldEmit(buf)
                 THEN [sc EXCEPT !.fed = @ + 1,
                                 !.text_buffer = <<>>,
                                 !.segments = Append(@, strip(buf)),
                                 !.emitted_at = Append(@, sc.fed + 1)]
                 ELSE [sc EXCEPT !.fed = @ + 1, !.text_buffer = buf]
        /\ UNCHANGED <<requestVars, lp, ck, rq>>

\* main.py:210-213: the deltas are over and the remainder is flushed
LastFlush ==
    /\ ~sc.done
    /\ sc.fed = Len(sc.deltas)
    /\ sc' = IF HasRemaining(sc.text_buffer)
             THEN [sc EXCEPT !.done = TRUE,
                             !.final_flush = TRUE,
                             !.segments = Append(@, strip(sc.text_buffer)),
                             !.emitted_at = Append(@, sc.fed)]
             ELSE [sc EXCEPT !.done = TRUE]
    /\ UNCHANGED <<requestVars, lp, ck, rq>>

DialogueNext == NextDelta \/ LastFlush

DialogueSpec == DialogueInit /\ [][DialogueNext]_vars

\* ------------------------------------------------ two concurrent requests
PairInit ==
    /\ NoRequest
    /\ lp = NoParse
    /\ ck = NoChunking
    /\ sc = NoDialogue
    /\ rq = NewPair

\* main.py:201-208: request q hands `text` to a synthesis session, which
\* sends it on the connection of the call (tts_service.py:194-211)
OpenOwnSession(p, q, text) ==
    [p EXCEPT !.sock[SocketOf(q)] = text,
              !.r[q].segments = Append(@, text),
              !.r[q].pc = "tts_recv"]

\* main.py:180-208: request q consumes its next delta
OwnDelta(q) ==
    /\ rq.r[q].pc = "llm_wait"
    /\ ~rq.r[q].ended
    /\ Len(rq.r[q].deltas) < MaxOwnDeltas
    /\ \E text_chunk \in OwnDeltas(q) :
         LET buf == AppendDelta(rq.buf[BufferOf(q)], text_chunk)
             p == [rq EXCEPT !.r[q].deltas = Append(@, text_chunk)]
         IN  rq' = IF ShouldEmit(buf)
                   THEN OpenOwnSession([p EXCEPT !.buf[BufferOf(q)] = <<>>],
                                       q, strip(buf))
                   ELSE [p EXCEPT !.buf[BufferOf(q)] = buf]
    /\ UNCHANGED <<requestVars, lp, ck, sc>>

\* main.py:210-213: request q's completion stream ends
OwnEnd(q) ==
    /\ rq.r[q].pc = "llm_wait"
    /\ ~rq.r[q].ended
    /\ LET p == [rq EXCEPT !.r[q].ended = TRUE]
           text_buffer_q == rq.buf[BufferOf(q)]
       IN  rq' = IF HasRemaining(text_buffer_q)
                 THEN OpenOwnSession(p, q, strip(text_buffer_q))
                 ELSE [p EXCEPT !.r[q].pc = "done"]
    /\ UNCHANGED <<requestVars, lp, ck, sc>>

\* tts_service.py:220-230 and main.py:208: request q reads from its
\* connection the audio of the text that was sent on it, and relays it
OwnAudio(q) ==
    /\ rq.r[q].pc = "tts_recv"
    /\ rq' = [rq EXCEPT !.r[q].output = Append(@, [text |-> rq.sock[SocketOf(q)]]),
                        !.r[q].pc = "tts_final"]
    /\ UNCHANGED <<requestVars, lp, ck, sc>>

\* tts_service.py:235-262: the final marker ends request q's session
OwnFinal(q) ==
    /\ rq.r[q].pc = "tts_final"
    /\ rq' = [rq EXCEPT !.sock[SocketOf(q)] = <<>>,
                        !.r[q].pc = IF rq.r[q].ended THEN "done" ELSE "llm_wait"]
    /\ UNCHANGED <<requestVars, lp, ck, sc>>

PairNext ==
    \E q \in Requests : OwnDelta(q) \/ OwnEnd(q) \/ OwnAudio(q) \/ OwnFinal(q)

PairSpec == PairInit /\ [][PairNext]_vars


\* ================================================================= claims

Last(q) == q[Len(q)]
NonBlank(t) == \E i \in 1..Len(t) : t[i] \notin Whitespace
SegsOf(out) == { out[i].seg : i \in 1..Len(out) }

\* C1: the audio chunks written to the client appear in segment order and,
\* within one segment, in the order the synthesis session produced them: no
\* chunk of a later segment precedes a chunk of an earlier one.
C1_AudioInSegmentOrder ==
    \A i, j \in 1..Len(output) :
        i < j => \/ output[i].seg < output[j].seg
                 \/ (output[i].seg = output[j].seg /\ output[i].k < output[j].k)

\* two segments were synthesized, the first with two chunks, and all were relayed
C1_Witness ==
    /\ Len(output) >= 3
    /\ SegsOf(output) = {1, 2}
    /\ output[2] = [seg |-> 1, k |-> 2]

\* full = w0 s1 w1 s2 ... sn wn for whitespace-only w0..wn: the segments, in
\* order, make up the whole text but for whitespace at their boundaries
RECURSIVE CoversInOrder(_, _)
CoversInOrder(full, segs) ==
    LET rest == lstrip(full)
    IN  IF segs = <<>> THEN rest = <<>>
        ELSE LET s == Head(segs)
             IN  /\ Len(rest) >= Len(s)
                 /\ SubSeq(rest, 1, Len(s)) = s
                 /\ CoversInOrder(SubSeq(rest, Len(s) + 1, Len(rest)), Tail(segs))

\* C2: once the delta sequence has been consumed to its end, the emitted
\* segment texts, in order, reproduce the concatenation of all deltas but
\* for whitespace at segment boundaries: no delta is lost or duplicated.
C2_NoDeltaLostOrDuplicated ==
    llm = "ended" => CoversInOrder(Concat(deltas), segments)

\* the stream ended after two segments, and whitespace was trimmed away
C2_Witness ==
    /\ llm = "ended"
    /\ Len(segments) = 2
    /\ Len(Concat(segments)) < Len(Concat(deltas))

RECURSIVE JoinSpace(_)
JoinSpace(ss) ==
    IF ss = <<>> THEN <<>>
    ELSE IF Len(ss) = 1 THEN Head(ss)
    ELSE Head(ss) \o <<" ">> \o JoinSpace(Tail(ss))

\* C3 as stated: the emitted segment texts joined by a single space equal
\* the trimmed concatenation of all the deltas.
C3_JoinedBySingleSpace ==
    llm = "ended" => JoinSpace(segments) = strip(Concat(deltas))

\* C3 as amended: the emitted segment texts joined by a single space equal
\* the trimmed concatenation of all the deltas once whitespace is
\* disregarded (whitespace characters removed on both sides).
C3_JoinedEqualUpToWhitespace ==
    llm = "ended" =>
        RemoveChars(JoinSpace(segments), Whitespace)
            = RemoveChars(strip(Concat(deltas)), Whitespace)

\* the stream ended after a flush in the middle of a run of letters
C3_Witness ==
    /\ llm = "ended"
    /\ Len(segments) = 2
    /\ Concat(segments) = Concat(deltas)

\* C4: every text handed to the synthesis streamer is the trimmed buffer
\* and has at least one non-whitespace character; no segment is empty.
C4_NoEmptySegment ==
    [][(req.endpoint = "chat" /\ segments' # segments) =>
         LET buf == IF deltas' # deltas
                    THEN text_buffer \o Last(deltas')
                    ELSE text_buffer
         IN  /\ segments' = Append(segments, strip(buf))
             /\ Last(segments') # <<>>
             /\ NonBlank(Last(segments'))]_vars

\* forty blanks satisfied the length test without a segment being emitted;
\* the segment came with the first letter
C4_Witness ==
    /\ Len(deltas) = 3
    /\ deltas[1] = Rep(" ", 20) /\ deltas[2] = Rep(" ", 20)
    /\ segments = << <<"c">> >>

\* the flush predicate as the claim words it
C5_FlushPredicate(b) ==
    \/ Len(b) >= 40
    \/ (Len(b) > 0 /\ Last(b) \in {".", "!", "?", ","} /\ Len(b) >= 30)
    \/ (Len(b) > 0 /\ Last(b) = " " /\ Len(b) >= 40)

\* C5: after each delta is appended, a segment is emitted iff the flush
\* predicate holds on the untrimmed buffer and the trimmed buffer is
\* non-empty; the emitted text is the trimmed buffer and the buffer is then
\* empty; otherwise nothing is emitted and the buffer keeps its content.
C5_FlushIffPredicate ==
    [][deltas' # deltas =>
         LET buf == text_buffer \o Last(deltas')
         IN  IF C5_FlushPredicate(buf) /\ strip(buf) # <<>>
             THEN segments' = Append(segments, strip(buf)) /\ text_buffer' = <<>>
             ELSE segments' = segments /\ text_buffer' = buf]_vars

\* plain deltas grew the buffer to exactly 40 and flushed one segment of 40
\* characters; the next buffer ends in a comma and is held back below 30
C5_Witness ==
    /\ segments = << Rep("a", 40) >>
    /\ text_buffer = Rep("b", 9) \o <<",">>

\* C6: when the delta sequence ends, exactly one final segment holding the
\* trimmed remaining buffer is handed to synthesis if that is non-empty, and
\* none if the buffer is blank; its chunks are relayed after those of every
\* earlier segment, and nothing is output after them.
C6_FinalSegment ==
    [][/\ (llm # "ended" /\ llm' = "ended") =>
            IF strip(text_buffer) # <<>>
            THEN /\ segments' = Append(segments, strip(text_buffer))
                 /\ ws'.state \in {"connecting", "rejected"}
                 /\ pc' \in {"tts_connect", "failed"}
            ELSE segments' = segments /\ pc' = "done"
       /\ llm = "ended" =>
            /\ segments' = segments
            /\ deltas' = deltas
            /\ \/ output' = output
               \/ \E c \in [seg : {Len(segments)}, k : 1..(MaxFrames + 1)] :
                     output' = Append(output, c)
       /\ pc = "done" => output' = output]_vars

\* a first segment and a final one were both synthesized and relayed
C6_Witness ==
    /\ pc = "done"
    /\ Len(segments) = 2
    /\ SegsOf(output) = {1, 2}
    /\ text_buffer # <<>>


\* the session's connection was opened and has been given up again
SessionOver == ws.state \in {"released", "raised"}

\* C7: on every exit path of a synthesis session that has opened its
\* connection (final marker, provider error event, exception while a
\* message is processed, connection ended by the provider) the close
\* control message is issued exactly once before the session is released.
C7_CloseOnEveryExit ==
    (SessionOver /\ ws.exit \in {"final", "error_event", "exception", "peer_closed"})
        => ws.close_calls = 1

IsPrefix(p, q) == Len(p) <= Len(q) /\ SubSeq(q, 1, Len(p)) = p

\* C8: a session sends generate first and flush second, reads no event and
\* yields no chunk before the flush was sent, and sends nothing after close.
C8_SessionLifecycle ==
    /\ IsPrefix(ws.sent, <<"generate", "flush", "close">>)
    /\ (ws.nread > 0 \/ ws.nyield > 0 \/ pc \in {"tts_recv", "tts_yield"})
          => (Len(ws.sent) >= 2 /\ ws.sent[2] = "flush")
    /\ Len(ws.sent) = 3 => (ws.state = "released" /\ pc \notin {"tts_recv", "tts_yield"})

\* a session went through its whole life and yielded audio
C8_Witness ==
    /\ ws.sent = <<"generate", "flush", "close">>
    /\ ws.nyield >= 1
    /\ ws.state = "released"

\* a stage of the streaming pipeline has raised
StageRaised ==
    llm = "closed" \/ ws.state \in {"rejected", "connect_failed", "raised"}

\* C9: once a stage has raised during streaming the request is failed and
\* stays so: no further delta is consumed, no further session is opened,
\* the pending buffer is not synthesized and no further chunk is output.
C9_FailureAbortsPipeline ==
    [][/\ StageRaised' => pc' = "failed"
       /\ StageRaised =>
            /\ deltas' = deltas
            /\ segments' = segments
            /\ ws' = ws
            /\ text_buffer' = text_buffer
            /\ output' = output]_vars

\* the completion stream broke after audio had gone out, with text pending
C9_Witness ==
    /\ pc = "failed"
    /\ llm = "closed"
    /\ output # <<>>
    /\ strip(text_buffer) # <<>>

\* C10: a stage failure before any audio byte has been sent (a failed
\* handshake of the completion stream included) gives a clean error
\* response; only a failure after bytes were sent terminates abruptly.
C10_CleanErrorBeforeFirstByte ==
    /\ (pc = "failed" /\ output = <<>>) => response \in {"http400", "http500"}
    /\ response = "aborted" => output # <<>>


\* no completion call and no synthesis call has been made for the request
NoStreamingCall ==
    /\ llm = "none"
    /\ deltas = <<>>
    /\ segments = <<>>
    /\ ws = NoSession
    /\ output = <<>>

\* C11: when transcription returns a text that is empty or whitespace only,
\* the request is Failed with the NoSpeechDetected client error and neither
\* the completion streamer nor the synthesis streamer is ever called.
C11_SilenceFailsWithoutCalls ==
    (req.stt_returned /\ strip(req.transcribed_text) = <<>>) =>
        /\ pc = "failed"
        /\ response = "http400"
        /\ req.detail = "no_speech"
        /\ NoStreamingCall

\* the provider returned a single blank
C11_Witness ==
    /\ req.stt_returned
    /\ req.transcribed_text = <<" ">>
    /\ pc = "failed"

\* C12: an empty upload fails with InvalidInput (a client error) before any
\* call to the transcription provider, and no completion or synthesis call
\* follows.
C12_EmptyUploadRejected ==
    req.audio_data = "empty" =>
        /\ req.stt_calls = 0
        /\ pc = "failed"
        /\ response = "http400"
        /\ req.detail = "empty_audio"
        /\ NoStreamingCall

\* the upload was read and was empty
C12_Witness ==
    /\ req.audio_data = "empty"
    /\ pc = "failed"
    /\ svc = Services

\* C13: if any of the three services is not configured, a chat request
\* fails immediately from Idle: the upload is not read and no provider call
\* of any kind is made.
C13_UnconfiguredFailsFromIdle ==
    (req.endpoint = "chat" /\ svc # Services) =>
        /\ pc \in {"idle", "failed"}
        /\ pc = "failed" => (response = "http500" /\ req.detail = "not_configured")
        /\ req.audio_data = "unread"
        /\ req.stt_calls = 0
        /\ NoStreamingCall

\* only the synthesis service is missing and the chat request has failed
C13_Witness ==
    /\ req.endpoint = "chat"
    /\ svc = {"stt", "llm"}
    /\ pc = "failed"

\* C14: a failure of the transcription provider call is surfaced as a
\* server error, distinct from the client error used for an empty upload
\* and for no speech detected.
C14_UpstreamIsServerError ==
    /\ req.detail = "stt_failed" => response = "http500"
    /\ req.detail \in {"empty_audio", "no_speech"} => response = "http400"

\* C15: a text that is empty, blank or empty after sanitization is rejected
\* before any connection to the synthesis provider is opened, and the
\* standalone synthesis endpoints surface this as a client error.
C15_RejectedTextIsClientError ==
    (req.endpoint \in {"tts", "tts_stream"} /\ ~TextAccepted(req.text)
       /\ "tts" \in svc /\ pc \notin {"idle", "responding"}) =>
        /\ ws.state = "rejected"
        /\ ws.sent = <<>>
        /\ pc = "failed"
        /\ response = "http400"


\* C17: every event with an error field received in a synthesis session
\* makes the session raise on that event, whatever else the event carries:
\* once such an event has been received the session has raised from the
\* error check (or is still handing over the audio of that very event), so
\* no later event is read and no later chunk is yielded.
C17_ErrorEventAlwaysRaises ==
    ws.got_error =>
        \/ ws.state = "raised" /\ ws.exit = "error_event"
        \/ pc = "tts_yield" /\ ws.frame.error

\* C18: every event with a true is_final received in a synthesis session
\* ends the receive loop successfully, also when its audio payload fails to
\* decode: once such an event has been received the loop has been left by
\* the final marker (or the audio of that very event is being handed over).
C18_FinalEventEndsLoop ==
    ws.got_final =>
        \/ ws.exit = "final"
        \/ pc = "tts_yield" /\ ws.frame.is_final


\* a connection to a provider is open (or being opened)
NoOpenConnection ==
    llm \notin {"connecting", "open"} /\ ws.state \notin {"connecting", "open"}

RECURSIVE ContentDeltas(_)
ContentDeltas(lines) ==
    IF lines = <<>> THEN <<>>
    ELSE (IF Head(lines) \in { ContentLine(x) : x \in ContentChars }
          THEN << <<Head(lines)[4]>> >> ELSE <<>>)
         \o ContentDeltas(Tail(lines))

\* C19: no line of the body that is not a well-formed content delta makes
\* the streamer raise: no line raises, every yielded element is a
\* non-empty content delta, and when a body of newline-terminated lines is
\* exhausted the content of every well-formed content line has been
\* yielded, in order.
C19_NoiseNeverAborts ==
    /\ lp.raised # "IndexError"
    /\ \A i \in 1..Len(lp.yielded) : lp.yielded[i] # <<>>
    /\ (lp.status = "ended" /\ lp.terminated) =>
         lp.yielded = ContentDeltas(lp.lines)

\* both runs over the sample text have ended
BothDone == \A n \in ChunkSizes : ck.run[n].done

\* C20 as stated: fed as deltas of 1 character and as deltas of 5
\* characters, a text gives the same concatenation of its segments.
C20_SameConcatenatedOutput ==
    BothDone => Concat(ck.run[1].segments) = Concat(ck.run[5].segments)

\* C20 as amended: fed as deltas of 1 character and as deltas of 5
\* characters, a text gives the same concatenation of its segments once
\* whitespace is disregarded (whitespace characters removed on both sides).
C20_SameUpToWhitespace ==
    BothDone =>
        RemoveChars(Concat(ck.run[1].segments), Whitespace)
            = RemoveChars(Concat(ck.run[5].segments), Whitespace)

\* the two runs cut the same text into two segments at different places
C20_Witness ==
    /\ BothDone
    /\ Len(ck.run[1].segments) = 2
    /\ Len(ck.run[5].segments) = 2
    /\ ck.run[1].segments # ck.run[5].segments
    /\ \E i \in 1..Len(ck.text) : ck.text[i] \in Whitespace


\* "Hello there, how are you today?"
SampleAnswer ==
    <<"H", "e", "l", "l", "o", " ", "t", "h", "e", "r", "e", ",", " ",
      "h", "o", "w", " ", "a", "r", "e", " ", "y", "o", "u", " ",
      "t", "o", "d", "a", "y", "?">>

\* C21: for the deltas "Hello", " there", ", how", " are", " you",
\* " today?" no segment is emitted before the last delta; the delta ending
\* in "?" makes the buffer flush by the punctuation rule (length >= 30)
\* and the one segment emitted is "Hello there, how are you today?"; the
\* end of the deltas adds no other.
C21_SampleDialogueOneSegment ==
    sc.deltas = SampleDeltas =>
        /\ sc.fed < Len(SampleDeltas) => sc.segments = <<>>
        /\ sc.fed = Len(SampleDeltas) =>
              /\ sc.segments = <<SampleAnswer>>
              /\ sc.emitted_at = <<Len(SampleDeltas)>>
              /\ ~sc.final_flush
              /\ Len(SampleAnswer) >= PunctThreshold
              /\ Len(SampleAnswer) < LenThreshold

\* the whole sample dialogue was consumed to its end
C21_Witness ==
    /\ sc.deltas = SampleDeltas
    /\ sc.done
    /\ Len(sc.segments) = 1


\* the state of the request's state machine the coroutine position stands for
Phase(p, l) ==
    CASE p = "idle" -> "Idle"
      [] p = "transcribing" -> "Transcribing"
      [] p = "done" -> "Done"
      [] p \in {"failed", "cancelled"} -> "Failed"
      [] OTHER -> IF l = "ended" THEN "Draining" ELSE "Streaming"

PhaseRank(ph) ==
    CASE ph = "Idle" -> 0
      [] ph = "Transcribing" -> 1
      [] ph = "Streaming" -> 2
      [] ph = "Draining" -> 3
      [] ph = "Done" -> 4
      [] ph = "Failed" -> 5

\* C22: a chat request moves only forward through Idle, Transcribing,
\* Streaming, Draining, Done, or to Failed from any of them; the completion
\* is not called before transcription returned a non-blank text, synthesis
\* is not called before the completion stream was opened and gave a delta;
\* Done and Failed are left no more and no chunk is output in them.
C22_ForwardOnlyStateMachine ==
    /\ [](req.endpoint = "chat" =>
            /\ llm # "none" => (req.stt_returned /\ strip(req.transcribed_text) # <<>>)
            /\ segments # <<>> => (llm \notin {"none", "connecting"} /\ deltas # <<>>))
    /\ [][req.endpoint = "chat" =>
            /\ PhaseRank(Phase(pc', llm')) >= PhaseRank(Phase(pc, llm))
            /\ Phase(pc, llm) \in {"Done", "Failed"} =>
                  /\ Phase(pc', llm') = Phase(pc, llm)
                  /\ output' = output]_vars

\* a request went through every state up to Done, with audio in both
C22_Witness ==
    /\ req.endpoint = "chat"
    /\ pc = "done"
    /\ SegsOf(output) = {1, 2}
    /\ llm = "ended"

\* what the segment buffer makes of the deltas `ds` when it runs alone
RECURSIVE Alone(_, _)
Alone(ds, st) ==
    IF ds = <<>> THEN st
    ELSE LET buf == st.text_buffer \o Head(ds)
         IN  Alone(Tail(ds),
                   IF ShouldEmit(buf)
                   THEN [text_buffer |-> <<>>, segments |-> Append(st.segments, strip(buf))]
                   ELSE [text_buffer |-> buf, segments |-> st.segments])

AloneAll(ds, ended) ==
    LET st == Alone(ds, [text_buffer |-> <<>>, segments |-> <<>>])
    IN  IF ended /\ strip(st.text_buffer) # <<>>
        THEN Append(st.segments, strip(st.text_buffer))
        ELSE st.segments

\* C23: with two chat requests running at the same time, under every
\* interleaving, the segments of each are those its own deltas give when
\* it runs alone, and every audio chunk it outputs is the audio of one of
\* its own segments, in order: nothing of one request shows in the other.
C23_RequestsShareNothing ==
    \A q \in Requests :
        /\ rq.r[q].segments = AloneAll(rq.r[q].deltas, rq.r[q].ended)
        /\ Len(rq.r[q].output) <= Len(rq.r[q].segments)
        /\ \A i \in 1..Len(rq.r[q].output) :
              rq.r[q].output[i].text = rq.r[q].segments[i]

\* both requests are inside a synthesis session at the same time, each
\* after a session of its own that is over
C23_Witness ==
    \A q \in Requests :
        /\ rq.r[q].pc \in {"tts_recv", "tts_final"}
        /\ Len(rq.r[q].segments) = 2


\* C24: within a chat request a synthesis session is started only when no
\* other is open: either it is the first, or the one before it has left its
\* receive loop by the final marker, sent its close message and released
\* its connection.
C24_OneSessionAtATime ==
    [][(req.endpoint = "chat" /\ segments' # segments) =>
          /\ ws.state \in {"none", "released"}
          /\ ws.state = "released" => (ws.exit = "final" /\ ws.frame = NoFrame)
          /\ ws'.state \in {"connecting", "rejected"}
          /\ ws'.nread = 0 /\ ws'.nyield = 0]_vars

\* a second session is under way after a first one that yielded audio
C24_Witness ==
    /\ req.endpoint = "chat"
    /\ Len(segments) = 2
    /\ ws.state = "open"
    /\ pc = "tts_recv"
    /\ SegsOf(output) = {1}


\* the request is over
RequestOver == pc \in {"done", "failed", "cancelled"}

\* C25: when the completion stream ends after finitely many deltas and
\* every synthesis session delivers a final marker or an error event, or
\* has its connection ended by the provider, a chat request eventually
\* reaches Done or Failed.
C25_RequestTerminates ==
    req.endpoint = "chat" => <>RequestOver


\* a synthesis session of a chat request is in progress: its segment was
\* emitted and its last audio chunk is not relayed yet
SessionInProgress ==
    req.endpoint = "chat" /\ pc \in InSession \cup {"tts_yield"}

\* the completion stream is not read during a session: no delta is pulled,
\* and a delta is pulled only when no session is left undrained
NoDeltaDuringSession ==
    /\ SessionInProgress =>
         (deltas' = deltas /\ full_text_response' = full_text_response
            /\ text_buffer' = text_buffer)
    /\ (req.endpoint = "chat" /\ deltas' # deltas) =>
         (pc = "llm_wait" /\ ws.state \in {"none", "released"}
            /\ ws.frame = NoFrame)

\* C26 as stated: between the emission of a segment and the relay of its
\* last audio chunk no delta is pulled from the completion streamer and the
\* text buffer stays empty.
C26_BufferEmptyDuringSession ==
    /\ [](SessionInProgress => text_buffer = <<>>)
    /\ [][NoDeltaDuringSession]_vars

\* C26, amended: during a synthesis session no delta is pulled and the text
\* buffer does not change; it is empty during the session of every segment
\* emitted by the flush rule, while the session of the final segment, emitted
\* at the end of the completion stream, runs with the remaining text still
\* in the buffer.
C26_StreamNotReadDuringSession ==
    /\ []((SessionInProgress /\ llm # "ended") => text_buffer = <<>>)
    /\ []((SessionInProgress /\ llm = "ended") => strip(text_buffer) = segments[Len(segments)])
    /\ [][NoDeltaDuringSession]_vars

\* a flush-rule segment is being relayed after an earlier delta was buffered
C26_Witness ==
    /\ req.endpoint = "chat"
    /\ pc = "tts_yield"
    /\ llm # "ended"
    /\ Len(deltas) >= 2
    /\ text_buffer = <<>>


\* stream_response over the whole body received as one chunk
OneChunk(lines) ==
    SplitLines([NewParse(lines, TRUE) EXCEPT
                  !.stream = <<>>,
                  !.buffer = decode(BytesOf(lines)).text])

\* C27: however a stream of newline-terminated lines is cut into chunks,
\* the deltas yielded by the time the streamer stops are the same as when
\* the stream arrives as one chunk, the contents of its lines in line order.
C27_CutsDoNotMatter ==
    (lp.terminated /\ lp.status \in {"ended", "raised"}) =>
        lp.yielded = OneChunk(lp.lines).yielded

\* the lines of the body that end with a newline
TerminatedLines ==
    IF lp.terminated THEN lp.lines ELSE SubSeq(lp.lines, 1, Len(lp.lines) - 1)

\* C28: a delta is yielded only from a line terminated by a newline: what
\* has been yielded is the content of the lines taken off the buffer, all of
\* them terminated; a final line without a newline is never taken off the
\* buffer, so it yields nothing and raises nothing, and when the body is
\* exhausted the streamer ends with the deltas of the terminated lines.
C28_OnlyTerminatedLinesYield ==
    /\ lp.nlines <= Len(TerminatedLines)
    /\ lp.yielded = ContentDeltas(SubSeq(lp.lines, 1, lp.nlines))
    /\ lp.raised = "IndexError" =>
         lp.lines[lp.nlines] = <<DataPrefix, " ", "{\"choices\":[]}">>
    /\ (lp.status = "ended" /\ ~lp.terminated) =>
         /\ lp.yielded = ContentDeltas(TerminatedLines)
         /\ lp.buffer = lp.lines[Len(lp.lines)]

\* the body has ended after a content line and a last content line that has
\* no newline
C28_Witness ==
    /\ lp.status = "ended"
    /\ ~lp.terminated
    /\ Len(lp.lines) = 2
    /\ lp.lines[2] = ContentLine("a")
    /\ lp.yielded = << <<EAcute>> >>


\* the buffer is pending text below the length threshold, or blank
BufferBounded(text_buf) ==
    Len(text_buf) < LenThreshold \/ strip(text_buf) = <<>>

\* C29: after each delta has been processed the pending buffer is shorter
\* than 40 characters or whitespace only, and a segment the delta made the
\* buffer emit is shorter than 40 plus the length of the delta, unless the
\* buffer held only whitespace before the delta.
C29_PendingBufferBounded ==
    /\ [](req.endpoint = "chat" => BufferBounded(text_buffer))
    /\ [][(req.endpoint = "chat" /\ deltas' # deltas) =>
            /\ BufferBounded(text_buffer')
            /\ segments' # segments =>
                 \/ Len(segments'[Len(segments')]) <
                        LenThreshold + Len(deltas'[Len(deltas')])
                 \/ (text_buffer # <<>> /\ strip(text_buffer) = <<>>)]_vars

\* a delta of 20 letters has just made a buffer of 30 characters emit a
\* segment of 50
C29_Witness ==
    /\ req.endpoint = "chat"
    /\ pc = "tts_connect"
    /\ Len(deltas) = 3
    /\ Len(segments) = 1
    /\ Len(segments[1]) = 50
    /\ text_buffer = <<>>


\* the last segment of a chat request is not blank and nothing of it is
\* left after sanitization
SegmentSanitizedAway ==
    /\ req.endpoint = "chat"
    /\ segments # <<>>
    /\ strip(segments[Len(segments)]) # <<>>
    /\ strip(strip_markdown(strip_emojis(segments[Len(segments)]))) = <<>>

\* C30: a segment that is empty after sanitization makes the synthesis
\* streamer raise before it opens a connection, and the chat stream fails
\* with it: the response is aborted, and from then on no delta is consumed,
\* no segment is emitted, no session is opened and no audio is sent, whatever
\* audio went out before.
C30_SanitizedAwaySegmentFailsStream ==
    /\ [](SegmentSanitizedAway =>
            /\ ws.state = "rejected"
            /\ ws.sent = <<>>
            /\ pc = "failed"
            /\ response = "aborted")
    /\ [][SegmentSanitizedAway =>
            /\ deltas' = deltas
            /\ segments' = segments
            /\ ws' = ws
            /\ output' = output
            /\ pc' = pc]_vars

\* the audio of a first segment was sent, then an emoji-only segment was
\* rejected
C30_Witness ==
    /\ SegmentSanitizedAway
    /\ Len(segments) = 2
    /\ SegsOf(output) = {1}
    /\ ws.state = "rejected"

====
